---- MODULE Spec2Model ----
(***************************************************************************)
(* State-machine model of the MCP Executor service (src/main.py): the two  *)
(* request handlers create_bundle (POST /mcp-bundler) and execute_request  *)
(* (POST /executor) running against the shared store with the tables mcp,  *)
(* bundles and route.  A handler advances by one store write, one read of *)
(* the tables handlers write, or one awaited call at a time, so concurrent *)
(* requests interleave between them, and every such step, being inside the *)
(* handler's try block, may raise instead.                                 *)
(***************************************************************************)
EXTENDS Integers, Sequences, FiniteSets, TLC

\* Number of HTTP requests a behaviour contains.
MaxCalls == 2
\* Largest number of task objects in one agent plan.
MaxTasks == 2

CallIds == 1..MaxCalls

VARIABLES mcp, bundles, route, calls

vars == <<mcp, bundles, route, calls>>

Range(s) == {s[k] : k \in 1..Len(s)}

\* s[:n] of a Python list.
Take(s, n) == SubSeq(s, 1, IF n < Len(s) THEN n ELSE Len(s))

-----------------------------------------------------------------------------
(* The store.  Rows are records and a table is the set of its rows; the    *)
(* mcp table, which no handler writes, is kept in its stored order.  The   *)
(* store generates the id of an inserted row: a value no other row has,    *)
(* here named after the request that inserts the row.                      *)

BundleId(c) == "bundle-" \o ToString(c)
RouteId(c, i) == "route-" \o ToString(c) \o "-" \o ToString(i)

\* The rows of the mcp table, created out of band.  `parameters` stands for
\* the opaque connection configuration of one tool server.
McpRows ==
    << [id |-> "m1", name |-> "alpha", parameters |-> "cfg-alpha"],
       [id |-> "m2", name |-> "beta", parameters |-> "cfg-beta"] >>

\* The tool names the server behind a connection configuration exposes.
ServerTools(parameters) ==
    IF parameters = "cfg-alpha" THEN <<"t1", "t2">>
    ELSE IF parameters = "cfg-beta" THEN <<"t3", "t4">>
    ELSE <<>>

\* supabase.table('mcp').select('*').in_('id', ids)
SelectMcpIn(ids) == SelectSeq(mcp, LAMBDA r : r.id \in Range(ids))

\* supabase.table('bundles').select('*').eq('id', id)
SelectBundleEq(id) == {r \in bundles : r.id = id}

RECURSIVE SortByOrder(_)
\* .order('execution_order'): the rows in ascending execution_order.
SortByOrder(rows) ==
    IF rows = {} THEN <<>>
    ELSE LET first == CHOOSE r \in rows :
                        \A q \in rows : r.execution_order <= q.execution_order
         IN  <<first>> \o SortByOrder(rows \ {first})

\* supabase.table('route').select('*').eq('bundle_id', id).order('execution_order')
SelectRoutesOf(id) == SortByOrder({r \in route : r.bundle_id = id})

RECURSIVE BuildConfig(_, _)
\* mcp_config[mcp['name']] = mcp['parameters'] for each row: a dict keeps the
\* position of a key's first insertion and the value of its last.
BuildConfig(rows, cfg) ==
    IF rows = <<>> THEN cfg
    ELSE LET r == Head(rows)
             hit == {k \in 1..Len(cfg) : cfg[k].name = r.name}
             entry == [name |-> r.name, parameters |-> r.parameters]
         IN  BuildConfig(Tail(rows),
                 IF hit = {} THEN Append(cfg, entry)
                 ELSE [k \in 1..Len(cfg) |-> IF k \in hit THEN entry ELSE cfg[k]])

RECURSIVE GetTools(_)
\* MultiServerMCPClient(mcp_config).get_tools(): the servers' tools, merged in
\* the order of the configuration; [tool.name for tool in tools].
GetTools(cfg) ==
    IF cfg = <<>> THEN <<>>
    ELSE ServerTools(Head(cfg).parameters) \o GetTools(Tail(cfg))

-----------------------------------------------------------------------------
(* Requests.                                                               *)

McpIdLists == { <<>>, <<"m9", "m1">>, <<"m2", "m1">> }

BundlerRequests ==
    [project_id : {"p1"}, mcp_ids : McpIdLists, description : {"desc"}]

\* The executor requests call c may carry: the id a request that arrived
\* before it gets or has got for its bundle, or an id no bundle ever has.
ExecutorRequests(c) ==
    [bundle_id : {BundleId(n) : n \in 1..c}, request : {"req"}]

-----------------------------------------------------------------------------
(* The agent's final text and the structured-output parsers.  A text is    *)
(* either prose or a JSON object; a JSON object is a function from the     *)
(* keys it carries, so a key the agent omitted is not in its DOMAIN.       *)

ProseText == [prose |-> "free text"]

TaskA == [task_description |-> "plan-a", tool_sequence |-> <<"t1">>, notes |-> "note-a"]
TaskB == [task_description |-> "plan-b", tool_sequence |-> <<"t2", "t1">>]
TaskMalformed == [task_description |-> "plan-m"]

\* A well-formed plan of n task objects, alternating the two.
Plan(n) == [tasks |-> [k \in 1..n |-> IF k % 2 = 1 THEN TaskA ELSE TaskB]]

\* What the bundler agent may answer.
BundlerTexts ==
    {ProseText, [tasks |-> <<TaskB, TaskMalformed>>]} \cup {Plan(0), Plan(MaxTasks)}

\* class Task: task_description and tool_sequence are required, notes
\* defaults to "".
TaskValid(obj) == {"task_description", "tool_sequence"} \subseteq DOMAIN obj

Task(obj) ==
    [task_description |-> obj.task_description,
     tool_sequence |-> obj.tool_sequence,
     notes |-> IF "notes" \in DOMAIN obj THEN obj.notes ELSE ""]

\* task_parser.parse(agent_response) for TaskPlanning: raises unless the
\* text is a JSON object with a list `tasks` of valid Task objects.
TaskPlanningParse(text) ==
    IF /\ "prose" \notin DOMAIN text
       /\ "tasks" \in DOMAIN text
       /\ \A k \in 1..Len(text.tasks) : TaskValid(text.tasks[k])
    THEN [ok |-> TRUE,
          tasks |-> [k \in 1..Len(text.tasks) |-> Task(text.tasks[k])]]
    ELSE [ok |-> FALSE]

\* FallbackTasks taking tools[:2].
FallbackTasks_TwoTools(description, tools) ==
    << [task_description |-> description,
        tool_sequence |-> Take(tools, 2),
        notes |-> "Auto-generated from description"] >>

\* The except branch of create_bundle: one task built from the request.
FallbackTasks(description, tools) ==
    << [task_description |-> description,
        tool_sequence |-> Take(tools, 3),
        notes |-> "Auto-generated from description"] >>

\* Lines 92-101: the parsed plan, or the fallback when parsing raises.
PlannedTasks(text, description, tools) ==
    LET p == TaskPlanningParse(text)
    IN  IF p.ok THEN p.tasks ELSE FallbackTasks(description, tools)

\* What the executor agent may answer, having been shown the routes rs.
ExecutorTexts(rs) ==
    {ProseText,
     [matched_route |-> TRUE],
     [matched_route |-> TRUE, execution_result |-> "out"],
     [matched_route |-> FALSE, execution_result |-> "out", new_route_created |-> TRUE],
     [matched_route |-> TRUE, route_used |-> "", execution_result |-> "out",
      new_route_created |-> FALSE],
     [matched_route |-> FALSE, route_used |-> "route-unknown", execution_result |-> "out",
      new_route_created |-> TRUE]}
      \cup {[matched_route |-> TRUE, route_used |-> rs[Len(rs)].id,
             execution_result |-> "out", new_route_created |-> FALSE] :
                k \in {Len(rs)} \ {0}}

\* execution_parser.parse(agent_response) for RouteExecution: matched_route
\* and execution_result are required, route_used defaults to "" and
\* new_route_created to False.
RouteExecutionParse(text) ==
    IF /\ "prose" \notin DOMAIN text
       /\ {"matched_route", "execution_result"} \subseteq DOMAIN text
    THEN [ok |-> TRUE,
          matched_route |-> text.matched_route,
          route_used |-> IF "route_used" \in DOMAIN text THEN text.route_used ELSE "",
          execution_result |-> text.execution_result,
          new_route_created |-> IF "new_route_created" \in DOMAIN text
                                THEN text.new_route_created ELSE FALSE]
    ELSE [ok |-> FALSE]

\* ParsedResponse without the fallbacks for an empty route_used.
ParsedResponse_RawRouteId(ex, routes) ==
    [result |-> ex.execution_result,
     route_used |-> ex.route_used,
     new_route_created |-> ex.new_route_created]

\* Lines 195-199: the response built from a parsed RouteExecution.
ParsedResponse(ex, routes) ==
    [result |-> ex.execution_result,
     route_used |-> IF ex.route_used # "" THEN ex.route_used
                    ELSE IF routes # <<>> THEN routes[1].id ELSE "new_route",
     new_route_created |-> ex.new_route_created]

\* FallbackResponse with new_route_created left at its default.
FallbackResponse_NeverNew(text, routes) ==
    [result |-> text,
     route_used |-> IF routes # <<>> THEN routes[1].id ELSE "new_route_created",
     new_route_created |-> FALSE]

\* FallbackResponse taking routes[-1].
FallbackResponse_LastRoute(text, routes) ==
    [result |-> text,
     route_used |-> IF routes # <<>> THEN routes[Len(routes)].id ELSE "new_route_created",
     new_route_created |-> (Len(routes) = 0)]

\* Lines 202-206: the response built when parsing raises.
FallbackResponse(text, routes) ==
    [result |-> text,
     route_used |-> IF routes # <<>> THEN routes[1].id ELSE "new_route_created",
     new_route_created |-> (Len(routes) = 0)]

\* Lines 192-206.
ExecutorBody(text, routes) ==
    LET ex == RouteExecutionParse(text)
    IN  IF ex.ok THEN ParsedResponse(ex, routes) ELSE FallbackResponse(text, routes)

-----------------------------------------------------------------------------
(* Exceptions.  Both handlers wrap their whole body in                      *)
(*   try: ... except Exception as e: raise HTTPException(500, str(e))      *)

\* The base class of an exception class.
BaseOf(cls) ==
    IF cls = "HTTPException" THEN "Exception"
    ELSE IF cls = "Exception" THEN "BaseException"
    ELSE "object"

RECURSIVE IsSubclass(_, _)
IsSubclass(cls, of) ==
    IF cls = of THEN TRUE
    ELSE IF cls = "object" THEN FALSE
    ELSE IsSubclass(BaseOf(cls), of)

\* raise HTTPException(status_code=404, detail="Bundle not found")
BundleNotFound == [cls |-> "HTTPException", status |-> 404, detail |-> "Bundle not found"]

\* An error raised by the store, a tool server or the model call.
UpstreamError == [cls |-> "Exception", status |-> 0, detail |-> "upstream failure"]

\* str(e)
Str(e) ==
    IF e.cls = "HTTPException" THEN ToString(e.status) \o ": " \o e.detail
    ELSE e.detail

\* The HTTP failure the framework sends for an exception leaving the handler.
ErrorResponse(e) ==
    IF e.cls = "HTTPException"
    THEN [status |-> e.status, body |-> [detail |-> e.detail]]
    ELSE [status |-> 500, body |-> [detail |-> "Internal Server Error"]]

\* Lines 131-132 and 208-209: what leaves the handler when e is raised
\* inside its try block.
ExceptClause(e) ==
    IF IsSubclass(e.cls, "Exception")
    THEN ErrorResponse([cls |-> "HTTPException", status |-> 500, detail |-> Str(e)])
    ELSE ErrorResponse(e)

-----------------------------------------------------------------------------
(* The handlers.  calls[c] holds the request of call c, the handler's      *)
(* position pc, its local variables and, once it has ended, its response.  *)

NoText == [none |-> TRUE]
NoRequest == [none |-> TRUE]
NoResponse == [status |-> 0, body |-> [none |-> TRUE]]
NoException == [cls |-> "none", status |-> 0, detail |-> ""]

IdleCall ==
    [kind |-> "idle", pc |-> "idle", req |-> NoRequest, tools |-> <<>>,
     text |-> NoText, tasks |-> <<>>, bundle_id |-> "", route_ids |-> <<>>,
     i |-> 0, mcps |-> <<>>, routes |-> <<>>, exc |-> NoException,
     resp |-> NoResponse]

Init ==
    /\ mcp = McpRows
    /\ bundles = {}
    /\ route = {}
    /\ calls = [c \in CallIds |-> IdleCall]

\* Requests are numbered in their order of arrival.
Arrives(c) ==
    /\ calls[c].kind = "idle"
    /\ \A d \in CallIds : d < c => calls[d].kind # "idle"

\* POST /mcp-bundler arrives.
ReceiveBundler(c) ==
    /\ Arrives(c)
    /\ \E r \in BundlerRequests :
         calls' = [calls EXCEPT ![c] =
                      [@ EXCEPT !.kind = "bundler", !.pc = "b_tools", !.req = r]]
    /\ UNCHANGED <<mcp, bundles, route>>

\* POST /executor arrives.
ReceiveExecutor(c) ==
    /\ Arrives(c)
    /\ \E r \in ExecutorRequests(c) :
         calls' = [calls EXCEPT ![c] =
                      [@ EXCEPT !.kind = "executor", !.pc = "e_bundle", !.req = r]]
    /\ UNCHANGED <<mcp, bundles, route>>

\* Lines 61-68 of create_bundle: select the mcp rows, build the
\* configuration, fetch the tools.
BundlerGetTools(c) ==
    /\ calls[c].pc = "b_tools"
    /\ calls' = [calls EXCEPT ![c] =
                    [@ EXCEPT !.pc = "b_agent",
                              !.tools = GetTools(BuildConfig(SelectMcpIn(calls[c].req.mcp_ids), <<>>))]]
    /\ UNCHANGED <<mcp, bundles, route>>

\* Lines 84-101: invoke the agent and parse its final text.
BundlerPlan(c) ==
    /\ calls[c].pc = "b_agent"
    /\ \E text \in BundlerTexts :
         calls' = [calls EXCEPT ![c] =
                      [@ EXCEPT !.pc = "b_insert",
                                !.text = text,
                                !.tasks = PlannedTasks(text, calls[c].req.description, calls[c].tools)]]
    /\ UNCHANGED <<mcp, bundles, route>>

\* The row of lines 104-109, with the id the store gives it.
BundleRow(id, req) ==
    [id |-> id, project_id |-> req.project_id, description |-> req.description,
     mcps |-> req.mcp_ids, routes |-> <<>>]

\* Lines 104-114: insert the bundle.
BundlerInsertBundle(c) ==
    /\ calls[c].pc = "b_insert"
    /\ LET id == BundleId(c)
       IN  /\ bundles' = bundles \cup {BundleRow(id, calls[c].req)}
           /\ calls' = [calls EXCEPT ![c] =
                           [@ EXCEPT !.pc = "b_routes", !.bundle_id = id,
                                     !.route_ids = <<>>, !.i = 0]]
    /\ UNCHANGED <<mcp, route>>

\* RouteRow counting execution_order from 1.
RouteRow_OrderFromOne(id, bundle_id, task, i, mcp_ids) ==
    [id |-> id, bundle_id |-> bundle_id,
     task_description |-> task.task_description,
     tool_sequence |-> task.tool_sequence,
     notes |-> task.notes,
     execution_order |-> i + 1,
     mcp_tools |-> mcp_ids]

\* The row of lines 116-123, with the id the store gives it.
RouteRow(id, bundle_id, task, i, mcp_ids) ==
    [id |-> id, bundle_id |-> bundle_id,
     task_description |-> task.task_description,
     tool_sequence |-> task.tool_sequence,
     notes |-> task.notes,
     execution_order |-> i,
     mcp_tools |-> mcp_ids]

\* Lines 115-124: one pass of the loop over enumerate(tasks).
BundlerInsertRoute(c) ==
    /\ calls[c].pc = "b_routes"
    /\ calls[c].i < Len(calls[c].tasks)
    /\ LET me == calls[c]
           id == RouteId(c, me.i)
       IN  /\ route' = route \cup
                 {RouteRow(id, me.bundle_id, me.tasks[me.i + 1], me.i, me.req.mcp_ids)}
           /\ calls' = [calls EXCEPT ![c] =
                           [@ EXCEPT !.route_ids = Append(@, id), !.i = @ + 1]]
    /\ UNCHANGED <<mcp, bundles>>

\* UpdateRoutes without the .eq('id', bundle_id) filter.
UpdateRoutes_NoFilter(table, bundle_id, route_ids) ==
    {[r EXCEPT !.routes = route_ids] : r \in table}

\* update({'routes': route_ids}).eq('id', bundle_id)
UpdateRoutes(table, bundle_id, route_ids) ==
    {IF r.id = bundle_id THEN [r EXCEPT !.routes = route_ids] ELSE r : r \in table}

\* Lines 127-129: after the loop, update the bundle and respond.
BundlerUpdate(c) ==
    /\ calls[c].pc = "b_routes"
    /\ calls[c].i = Len(calls[c].tasks)
    /\ bundles' = UpdateRoutes(bundles, calls[c].bundle_id, calls[c].route_ids)
    /\ calls' = [calls EXCEPT ![c] =
                    [@ EXCEPT !.pc = "done",
                              !.resp = [status |-> 200,
                                        body |-> [bundle_id |-> calls[c].bundle_id,
                                                  routes_created |-> Len(calls[c].tasks)]]]]
    /\ UNCHANGED <<mcp, route>>

\* Lines 139-143 of execute_request: select the bundle, 404 when absent.
ExecutorSelectBundle(c) ==
    /\ calls[c].pc = "e_bundle"
    /\ LET data == SelectBundleEq(calls[c].req.bundle_id)
       IN  calls' = [calls EXCEPT ![c] =
                        IF data = {}
                        THEN [@ EXCEPT !.pc = "done", !.exc = BundleNotFound,
                                       !.resp = ExceptClause(BundleNotFound)]
                        ELSE [@ EXCEPT !.pc = "e_routes",
                                       !.mcps = (CHOOSE r \in data : TRUE).mcps]]
    /\ UNCHANGED <<mcp, bundles, route>>

\* Lines 146-157: select the bundle's routes by execution_order and its mcp
\* rows, fetch the tools.  No handler writes the mcp table, so the reads of
\* it are taken together with the read of the routes.
ExecutorSelectRoutes(c) ==
    /\ calls[c].pc = "e_routes"
    /\ calls' = [calls EXCEPT ![c] =
                    [@ EXCEPT !.pc = "e_agent",
                              !.routes = SelectRoutesOf(calls[c].req.bundle_id),
                              !.tools = GetTools(BuildConfig(SelectMcpIn(calls[c].mcps), <<>>))]]
    /\ UNCHANGED <<mcp, bundles, route>>

\* ExecutorRespond inserting a route row when the response reports a new
\* route.
ExecutorRespond_Persisting(c) ==
    /\ calls[c].pc = "e_agent"
    /\ \E text \in ExecutorTexts(calls[c].routes) :
         LET body == ExecutorBody(text, calls[c].routes)
             row == [id |-> RouteId(c, 0), bundle_id |-> calls[c].req.bundle_id,
                     task_description |-> calls[c].req.request,
                     tool_sequence |-> <<>>, notes |-> "",
                     execution_order |-> Len(calls[c].routes),
                     mcp_tools |-> calls[c].mcps]
         IN  /\ calls' = [calls EXCEPT ![c] =
                             [@ EXCEPT !.pc = "done", !.text = text,
                                       !.resp = [status |-> 200, body |-> body]]]
             /\ route' = IF body.new_route_created THEN route \cup {row} ELSE route
    /\ UNCHANGED <<mcp, bundles>>

\* Lines 185-206: invoke the agent, parse its final text and respond.
ExecutorRespond(c) ==
    /\ calls[c].pc = "e_agent"
    /\ \E text \in ExecutorTexts(calls[c].routes) :
         calls' = [calls EXCEPT ![c] =
                      [@ EXCEPT !.pc = "done",
                                !.text = text,
                                !.resp = [status |-> 200,
                                          body |-> ExecutorBody(text, calls[c].routes)]]]
    /\ UNCHANGED <<mcp, bundles, route>>

\* ExceptStore deleting the rows the failed call had inserted.
ExceptStore_Rollback(table, call) ==
    {r \in table : r.id # call.bundle_id /\ r.id \notin Range(call.route_ids)}

\* What the except clause of a handler does to a table of the store:
\* lines 131-132 and 208-209 issue no store operation.
ExceptStore(table, call) == table

\* The pending store operation, tool-server call or model call of a handler
\* raises: the except clause of lines 131-132 and 208-209 ends the request.
\* The frame is unwound: of the locals only the ids of the rows the call had
\* written are kept, as a record of what it left in the store.
Raise(c) ==
    /\ calls[c].pc \in {"b_tools", "b_agent", "b_insert", "b_routes",
                        "e_bundle", "e_routes", "e_agent"}
    /\ calls' = [calls EXCEPT ![c] =
                    [@ EXCEPT !.pc = "done", !.exc = UpstreamError,
                              !.resp = ExceptClause(UpstreamError),
                              !.tools = <<>>, !.text = NoText, !.tasks = <<>>,
                              !.mcps = <<>>, !.routes = <<>>]]
    /\ bundles' = ExceptStore(bundles, calls[c])
    /\ route' = ExceptStore(route, calls[c])
    /\ UNCHANGED mcp

Next ==
    \E c \in CallIds :
        \/ ReceiveBundler(c)
        \/ ReceiveExecutor(c)
        \/ BundlerGetTools(c)
        \/ BundlerPlan(c)
        \/ BundlerInsertBundle(c)
        \/ BundlerInsertRoute(c)
        \/ BundlerUpdate(c)
        \/ ExecutorSelectBundle(c)
        \/ ExecutorSelectRoutes(c)
        \/ ExecutorRespond(c)
        \/ Raise(c)

Spec == Init /\ [][Next]_vars

-----------------------------------------------------------------------------
(* Properties.                                                             *)

Min(a, b) == IF a < b THEN a ELSE b

RoutesOf(id) == {r \in route : r.bundle_id = id}

BundleOf(id) == CHOOSE b \in bundles : b.id = id

\* The id of the route of lowest execution_order among rows, a non-empty
\* sequence of route rows.
LowestOrderId(rows) ==
    (CHOOSE r \in Range(rows) :
        \A q \in Range(rows) : r.execution_order <= q.execution_order).id

Responded(c, kind) ==
    /\ calls[c].kind = kind
    /\ calls[c].pc = "done"
    /\ calls[c].resp.status = 200

\* C1 as stated: an execute_request call that finds no bundle row surfaces
\* HTTP 404 with detail 'Bundle not found'.
C1_NotFoundSurfaces404 ==
    \A c \in CallIds :
        (calls[c].kind = "executor" /\ calls[c].pc = "done"
            /\ calls[c].exc = BundleNotFound)
        => /\ calls[c].resp.status = 404
           /\ calls[c].resp.body.detail = "Bundle not found"

\* C2 as stated: every execute_request call that responds on a bundle for
\* which it read no routes reports new_route_created = true.
C2_ZeroRoutesAlwaysNew ==
    \A c \in CallIds :
        (Responded(c, "executor") /\ calls[c].routes = <<>>)
        => calls[c].resp.body.new_route_created = TRUE

\* C2 amended: on a bundle with no routes the response's new_route_created
\* is true when the agent's text does not parse, and otherwise is the flag
\* the text carries (false when the text omits it).
C2_ZeroRoutesFlag ==
    \A c \in CallIds :
        (Responded(c, "executor") /\ calls[c].routes = <<>>)
        => LET text == calls[c].text
               parsed == /\ "prose" \notin DOMAIN text
                         /\ {"matched_route", "execution_result"} \subseteq DOMAIN text
           IN  calls[c].resp.body.new_route_created =
                  IF ~parsed THEN TRUE
                  ELSE IF "new_route_created" \in DOMAIN text
                       THEN text.new_route_created ELSE FALSE

\* C2 witness: a response on a bundle without routes to a text that does
\* not parse.
C2_Witness ==
    \E c \in CallIds :
        /\ Responded(c, "executor") /\ calls[c].routes = <<>>
        /\ calls[c].text = ProseText
        /\ calls[c].resp.body.new_route_created

\* C3: when the agent's text parses into N planned tasks and create_bundle
\* responds, the bundle has exactly N route rows, the k-th planned task is
\* the row of execution_order k-1, the bundle's routes field lists the N
\* row ids in plan order, and routes_created is N.
C3_RoutesFollowPlan ==
    \A c \in CallIds :
        (Responded(c, "bundler") /\ TaskPlanningParse(calls[c].text).ok)
        => LET plan == calls[c].text.tasks
               N == Len(plan)
               rows == RoutesOf(calls[c].bundle_id)
               b == BundleOf(calls[c].bundle_id)
           IN  /\ Cardinality(rows) = N
               /\ Len(b.routes) = N
               /\ calls[c].resp.body.routes_created = N
               /\ calls[c].resp.body.bundle_id = b.id
               /\ \A k \in 1..N :
                    \E r \in rows :
                        /\ r.execution_order = k - 1
                        /\ r.id = b.routes[k]
                        /\ r.task_description = plan[k].task_description
                        /\ r.tool_sequence = plan[k].tool_sequence
                        /\ r.notes = (IF "notes" \in DOMAIN plan[k]
                                      THEN plan[k].notes ELSE "")

\* C3 witness: a call responded with a parsed plan of at least two tasks.
C3_Witness ==
    \E c \in CallIds :
        /\ Responded(c, "bundler")
        /\ TaskPlanningParse(calls[c].text).ok
        /\ Len(calls[c].text.tasks) >= 2
        /\ calls[c].resp.body.routes_created = Len(calls[c].text.tasks)

\* C4 as stated: a create_bundle call whose mcp_ids match no mcp row fails
\* with HTTP 500 before the agent is invoked and creates no row.
C4_NoMatchFailsEarly ==
    \A c \in CallIds :
        (calls[c].kind = "bundler" /\ SelectMcpIn(calls[c].req.mcp_ids) = <<>>)
        => /\ calls[c].pc \notin {"b_insert", "b_routes"}
           /\ calls[c].text = NoText
           /\ calls[c].bundle_id = ""
           /\ (calls[c].pc = "done" => calls[c].resp.status = 500)

\* C5: when the agent's text fails to parse and create_bundle responds, the
\* bundle has exactly one route row, with the request's description,
\* execution_order 0, the first min(3, number of tools) tool names in the
\* tool list's order and the fixed note, and routes_created is 1.
C5_FallbackRoute ==
    \A c \in CallIds :
        (Responded(c, "bundler") /\ ~TaskPlanningParse(calls[c].text).ok)
        => LET rows == RoutesOf(calls[c].bundle_id)
               tools == calls[c].tools
           IN  /\ Cardinality(rows) = 1
               /\ calls[c].resp.body.routes_created = 1
               /\ \A r \in rows :
                    /\ r.task_description = calls[c].req.description
                    /\ r.execution_order = 0
                    /\ Len(r.tool_sequence) = Min(3, Len(tools))
                    /\ \A k \in 1..Len(r.tool_sequence) : r.tool_sequence[k] = tools[k]
                    /\ r.notes = "Auto-generated from description"

\* C5 witness: a fallback route built from a list of more than three tools.
C5_Witness ==
    \E c \in CallIds :
        /\ Responded(c, "bundler")
        /\ ~TaskPlanningParse(calls[c].text).ok
        /\ Len(calls[c].tools) > 3
        /\ \E r \in RoutesOf(calls[c].bundle_id) : Len(r.tool_sequence) = 3

\* C6: when the executor agent's text fails to parse, the response's result
\* is that text, route_used is the id of the read route of lowest
\* execution_order, or 'new_route_created' when no route was read, and
\* new_route_created is true exactly when no route was read.
C6_ExecutorFallback ==
    \A c \in CallIds :
        (Responded(c, "executor") /\ ~RouteExecutionParse(calls[c].text).ok)
        => LET body == calls[c].resp.body
               rs == calls[c].routes
           IN  /\ body.result = calls[c].text
               /\ body.route_used =
                    IF rs # <<>> THEN LowestOrderId(rs) ELSE "new_route_created"
               /\ body.new_route_created = (rs = <<>>)

\* C6 witness: a fallback response on a bundle of which at least two routes
\* were read.
C6_Witness ==
    \E c \in CallIds :
        /\ Responded(c, "executor")
        /\ ~RouteExecutionParse(calls[c].text).ok
        /\ Len(calls[c].routes) >= 2
        /\ ~calls[c].resp.body.new_route_created

\* C7: when the executor agent's text parses, the response's result is its
\* execution_result, new_route_created is its flag, and route_used is its
\* route id when it carries a non-empty one, otherwise the id of the read
\* route of lowest execution_order, otherwise 'new_route'; route_used is
\* never empty.
C7_ExecutorParsed ==
    \A c \in CallIds :
        (Responded(c, "executor") /\ RouteExecutionParse(calls[c].text).ok)
        => LET body == calls[c].resp.body
               text == calls[c].text
               rs == calls[c].routes
               reported == IF "route_used" \in DOMAIN text THEN text.route_used ELSE ""
           IN  /\ body.result = text.execution_result
               /\ body.new_route_created =
                    (IF "new_route_created" \in DOMAIN text
                     THEN text.new_route_created ELSE FALSE)
               /\ body.route_used =
                    IF reported # "" THEN reported
                    ELSE IF rs # <<>> THEN LowestOrderId(rs) ELSE "new_route"
               /\ body.route_used # ""

\* C7 witness: a parsed text that omits route_used, answered with the id
\* of the first of at least two routes read.
C7_Witness ==
    \E c \in CallIds :
        /\ Responded(c, "executor")
        /\ RouteExecutionParse(calls[c].text).ok
        /\ "route_used" \notin DOMAIN calls[c].text
        /\ Len(calls[c].routes) >= 2
        /\ calls[c].resp.body.route_used = calls[c].routes[1].id

\* C8: every route row's bundle_id is the id of a bundle row, and every
\* bundle row's routes field is empty or lists, without repetition, exactly
\* the ids of the route rows of that bundle, all inserted by the call that
\* inserted the bundle.
C8_StoreConsistent ==
    /\ \A r \in route : \E b \in bundles : b.id = r.bundle_id
    /\ \A b \in bundles :
         \/ b.routes = <<>>
         \/ /\ Range(b.routes) = {r.id : r \in RoutesOf(b.id)}
            /\ Len(b.routes) = Cardinality(RoutesOf(b.id))
            /\ \E c \in CallIds :
                 /\ calls[c].kind = "bundler"
                 /\ calls[c].bundle_id = b.id
                 /\ calls[c].route_ids = b.routes

\* C8 witness: one bundle has its routes listed while another call is in
\* the middle of inserting the routes of its own bundle.
C8_Witness ==
    \E c, d \in CallIds :
        /\ c # d
        /\ Responded(c, "bundler") /\ Len(calls[c].route_ids) >= 2
        /\ BundleOf(calls[c].bundle_id).routes = calls[c].route_ids
        /\ calls[d].pc = "b_routes" /\ calls[d].i >= 1
        /\ calls[d].i < Len(calls[d].tasks)

\* C9: a create_bundle call that failed after inserting its bundle ended
\* with HTTP 500, and from then on the bundle row has an empty routes field
\* and the route rows the call had inserted, of execution_order 0..k-1 and
\* that bundle's id, are the bundle's route rows.
C9_PartialWritesStay ==
    \A c \in CallIds :
        (calls[c].kind = "bundler" /\ calls[c].pc = "done"
            /\ calls[c].exc # NoException /\ calls[c].bundle_id # "")
        => LET k == Len(calls[c].route_ids)
               rows == RoutesOf(calls[c].bundle_id)
           IN  /\ calls[c].resp.status = 500
               /\ \E b \in bundles : b.id = calls[c].bundle_id /\ b.routes = <<>>
               /\ Cardinality(rows) = k
               /\ \A j \in 1..k :
                    \E r \in rows :
                        r.id = calls[c].route_ids[j] /\ r.execution_order = j - 1

\* C9 witness: a call failed with one route inserted, and afterwards an
\* execute_request call on that bundle ran to its response.
C9_Witness ==
    \E c, d \in CallIds :
        /\ calls[c].kind = "bundler" /\ calls[c].pc = "done"
        /\ calls[c].exc = UpstreamError
        /\ Len(calls[c].route_ids) = 1
        /\ Responded(d, "executor")
        /\ calls[d].req.bundle_id = calls[c].bundle_id
        /\ Len(calls[d].routes) = 1

====
